---- MODULE Spec2Model ----
(***************************************************************************)
(* A model of AXVin/astar-pathfinding (src/main.py): a character grid      *)
(* parsed from text, position-keyed lookup, neighbour enumeration and the  *)
(* best-first search Grid.astar.                                           *)
(*                                                                         *)
(* A Node is identified by its position <<x, y>> (Node.__eq__ and          *)
(* Node.__hash__ use the position only).  A distance sqrt(n) is            *)
(* represented by its radicand n, and a cost sqrt(g) + sqrt(h) by the      *)
(* pair <<g, h>>; costs are compared exactly, as the floats compare.       *)
(***************************************************************************)
EXTENDS Integers, Sequences, FiniteSets, TLC

\* ---------------------------------------------------------------- bounds
MaxWidth == 4
MaxHeight == 3
MaxCells == 12
\* The walls of a grid lie in one row or in one column.
MaxWalls == 2
\* The grids on which several searches run one after the other, and on
\* which a search is followed to its return.
MaxRepeatWidth == 3
MaxRepeatHeight == 3
MaxRepeatCells == 6
MaxSearches == 2
\* The texts given to Grid.from_text: the stripped lines of a text.
MaxTextWidth == 2
MaxTextLines == 3

\* ------------------------------------------------------------- constants
CARDINALS == << <<0, -1>>, <<-1, 0>>, <<1, 0>>, <<0, 1>> >>
DIAGONALS == << <<-1, -1>>, <<1, -1>>, <<-1, 1>>, <<1, 1>> >>
ADJACENTS == << DIAGONALS[1], CARDINALS[1], DIAGONALS[2],
                CARDINALS[2], CARDINALS[3],
                DIAGONALS[3], CARDINALS[4], DIAGONALS[4] >>

\* The three members of the enum Directions.
Directions == [adjacent |-> ADJACENTS, cardinals |-> CARDINALS, diagonals |-> DIAGONALS]

Chars == {".", "#"}

\* Python's None (a Node's missing parent, the default of Mapping.get).
None == << >>
\* float('inf')
Inf == << >>
\* The KeyError raised by Grid.__getitem__.
KeyError == [error |-> "KeyError"]

VARIABLES
    nodes,            \* Grid.nodes: the sequence of Nodes [value, x, y]
    width,            \* Grid.width
    height,           \* Grid.height
    cost,             \* Node.cost of every node, by position
    parent,           \* Node.parent of every node, by position
    start,            \* astar's argument start
    goal,             \* astar's argument goal
    to_visit,         \* astar's local to_visit
    already_visited,  \* astar's local already_visited
    path,             \* astar's local path
    visiting,         \* astar's local visiting
    node,             \* astar's local node of the reconstruction loop
    result,           \* the list astar returned
    pc,               \* where the program is: idle, loop, backtrack, done
    searches,         \* how many astar calls were made on the grid
    probe,            \* the last direct call of grid[key] or grid.neighbours
    fresh             \* a search after the first: the same astar call run
                      \* on a freshly parsed grid

vars == <<nodes, width, height, cost, parent, start, goal, to_visit,
          already_visited, path, visiting, node, result, pc, searches, probe,
          fresh>>

\* ------------------------------------------------------------------ Node
Pos(n) == <<n.x, n.y>>

\* Node.__init__: a new node has cost inf and no parent.
Node(value, x, y) == [value |-> value, x |-> x, y |-> y]

\* ------------------------------------------------------------------ Grid
LineNodes(line, y) == [i \in 1..Len(line) |-> Node(line[i], i - 1, y)]

RECURSIVE TextNodes(_, _)
TextNodes(text, k) ==
    IF k = 0 THEN << >>
    ELSE TextNodes(text, k - 1) \o LineNodes(text[k], k - 1)

\* Grid.from_text on the stripped lines of the text: width is the length
\* of the last line, height the number of lines.
from_text(text) ==
    [nodes  |-> TextNodes(text, Len(text)),
     width  |-> IF Len(text) = 0 THEN 0 ELSE Len(text[Len(text)]),
     height |-> Len(text)]

\* The positions of the grid's nodes.
Cells == {Pos(nodes[i]) : i \in 1..Len(nodes)}

\* The node object at a position.
NodeAt(p) == nodes[CHOOSE i \in 1..Len(nodes) : Pos(nodes[i]) = p]

\* Grid.__getitem__: index = x + width*y into the Python list nodes; a
\* negative index counts from the end of the list, an index outside
\* [-len, len) raises IndexError, which is turned into KeyError.
getitem(key) ==
    LET index == key[1] + width * key[2]
        n     == Len(nodes)
    IN  IF index >= 0 /\ index < n THEN nodes[index + 1]
        ELSE IF index < 0 /\ index >= -n THEN nodes[index + n + 1]
        ELSE KeyError

\* Mapping.get(key, default): self[key], or default on KeyError.
get(key) ==
    LET r == getitem(key) IN IF r = KeyError THEN None ELSE Pos(r)

\* Grid.neighbours without the test "if x<0 or y<0".
neighboursNoSkip(n, directions) ==
    LET points == [i \in 1..Len(directions) |->
                     get(<<n[1] + directions[i][1], n[2] + directions[i][2]>>)]
    IN  SelectSeq(points, LAMBDA p : p # None)

\* Grid.neighbours: the nodes at node + offset for the offsets of the
\* direction set, offsets giving a negative x or y skipped, lookups that
\* found nothing filtered out.
neighbours(n, directions) ==
    LET points == [i \in 1..Len(directions) |->
                     LET x == n[1] + directions[i][1]
                         y == n[2] + directions[i][2]
                     IN  IF x < 0 \/ y < 0 THEN None ELSE get(<<x, y>>)]
    IN  SelectSeq(points, LAMBDA p : p # None)

cardinals(n) == neighbours(n, Directions.cardinals)
diagonals(n) == neighbours(n, Directions.diagonals)
adjacent(n)  == neighbours(n, Directions.adjacent)

\* Grid.distance: sqrt(dx^2 + dy^2), represented by its radicand.
distance(a, b) == (a[1] - b[1]) * (a[1] - b[1]) + (a[2] - b[2]) * (a[2] - b[2])

\* Grid.traversable
traversable(n) == NodeAt(n).value # "#"

\* ----------------------------------------------------------------- costs
\* Pairs of sums of two square roots that are equal as reals and that
\* IEEE-754 double arithmetic (math.sqrt, then +) rounds apart, the first
\* below the second; the pairs are sorted.  These are all such pairs with
\* radicands up to 40, and all such pairs among the costs that occur on
\* a grid of 10 columns and 10 rows.
RoundsBelow ==
    { << <<0, 18>>, <<2, 8>> >>, << <<2, 18>>, <<0, 32>> >>,
      << <<2, 18>>, <<8, 8>> >>, << <<18, 18>>, <<8, 32>> >>,
      << <<0, 72>>, <<2, 50>> >>, << <<0, 162>>, <<2, 128>> >> }

Sorted(c) == IF c[1] <= c[2] THEN c ELSE <<c[2], c[1]>>

\* The product x * y of two naturals below 2^30 as three digits, the first
\* not reduced, in base 2^15: the product itself may exceed the 32-bit
\* integers the comparison is computed in.
Mul(x, y) ==
    LET base == 32768
        x1   == x \div base
        x0   == x % base
        y1   == y \div base
        y0   == y % base
        low  == x0 * y0
        mid  == x1 * y0 + x0 * y1 + (low \div base)
    IN  <<x1 * y1 + (mid \div base), mid % base, low % base>>

\* u < v for two such products.
MulLess(u, v) ==
    \/ u[1] < v[1]
    \/ u[1] = v[1] /\ u[2] < v[2]
    \/ u[1] = v[1] /\ u[2] = v[2] /\ u[3] < v[3]

\* sqrt(a) + sqrt(b) < sqrt(c) + sqrt(d) over the reals, in integers.
SumLess(a, b, c, d) ==
    LET P == 4 * a * b
        Q == 4 * c * d
        R == (c + d) - (a + b)
        S == P - R * R - Q
        T == Q - P - R * R
    IN  IF R >= 0
        THEN S < 0 \/ MulLess(Mul(S, S), Mul(4 * R * R, Q))
        ELSE T > 0 /\ MulLess(Mul(4 * R * R, P), Mul(T, T))

\* The float comparison c1 < c2 of two costs.
CostLess(c1, c2) ==
    /\ c1 # Inf
    /\ \/ c2 = Inf
       \/ SumLess(c1[1], c1[2], c2[1], c2[2])
       \/ <<Sorted(c1), Sorted(c2)>> \in RoundsBelow

\* --------------------------------------------------------------- astar
\* The state of one astar call, as a record.
run ==
    [cost |-> cost, parent |-> parent, to_visit |-> to_visit,
     already_visited |-> already_visited, path |-> path,
     visiting |-> visiting, node |-> node, result |-> result, pc |-> pc]

\* The nodes of a freshly parsed grid (Node.__init__).
FreshNodes ==
    [cost |-> [c \in Cells |-> Inf], parent |-> [c \in Cells |-> None],
     to_visit |-> {}, already_visited |-> {}, path |-> << >>,
     visiting |-> None, node |-> None, result |-> << >>, pc |-> "idle"]

\* Grid.clear_nodes without "node.cost = float('inf')".
clear_nodes_parent_only(s) ==
    [s EXCEPT !.parent = [c \in Cells |-> None]]

\* Grid.clear_nodes
clear_nodes(s) ==
    [s EXCEPT !.parent = [c \in Cells |-> None],
              !.cost = [c \in Cells |-> Inf]]

\* astar up to its while loop.
AstarEnter(s, st, gl) ==
    LET c == clear_nodes(s)
    IN  [cost            |-> [c.cost EXCEPT ![st] = <<0, distance(st, gl)>>],
         parent          |-> [c.parent EXCEPT ![st] = None],
         to_visit        |-> {st},
         already_visited |-> {},
         path            |-> << >>,
         visiting        |-> st,
         node            |-> None,
         result          |-> << >>,
         pc              |-> "loop"]

\* min(to_visit, key=cost): Python returns the first node of least cost in
\* the set's iteration order; any node of least cost may be that one.
MinCost(s) ==
    {n \in s.to_visit : \A m \in s.to_visit : ~CostLess(s.cost[m], s.cost[n])}

\* The body of "for node in nodes" without the traversable test.
RelaxThroughWalls(s, v, n) ==
    IF n \in s.already_visited THEN s
    ELSE LET c == <<distance(v, n), distance(goal, n)>>
         IN  IF CostLess(s.cost[n], c) THEN s
             ELSE [s EXCEPT !.parent[n] = v,
                            !.cost[n] = c,
                            !.to_visit = @ \cup {n}]

\* The body of "for node in nodes" without the already_visited test.
RelaxReopen(s, v, n) ==
    IF ~traversable(n) THEN s
    ELSE LET c == <<distance(v, n), distance(goal, n)>>
         IN  IF CostLess(s.cost[n], c) THEN s
             ELSE [s EXCEPT !.parent[n] = v,
                            !.cost[n] = c,
                            !.to_visit = @ \cup {n}]

\* The body of "for node in nodes" skipping a neighbour of equal cost too
\* ("if node.cost <= cost").
RelaxSkipEqual(s, v, n) ==
    IF ~traversable(n) THEN s
    ELSE IF n \in s.already_visited THEN s
    ELSE LET c == <<distance(v, n), distance(goal, n)>>
         IN  IF ~CostLess(c, s.cost[n]) THEN s
             ELSE [s EXCEPT !.parent[n] = v,
                            !.cost[n] = c,
                            !.to_visit = @ \cup {n}]

\* The body of "for node in nodes" setting the parent of a node only when
\* it has none.
RelaxKeepParent(s, v, n) ==
    IF ~traversable(n) THEN s
    ELSE IF n \in s.already_visited THEN s
    ELSE LET c == <<distance(v, n), distance(goal, n)>>
         IN  IF CostLess(s.cost[n], c) THEN s
             ELSE [s EXCEPT !.parent[n] = IF @ = None THEN v ELSE @,
                            !.cost[n] = c,
                            !.to_visit = @ \cup {n}]

\* The body of "for node in nodes" for one neighbour n of v.
Relax(s, v, n) ==
    IF ~traversable(n) THEN s
    ELSE IF n \in s.already_visited THEN s
    ELSE LET g_cost == distance(v, n)
             h_cost == distance(goal, n)
             c      == <<g_cost, h_cost>>
         IN  IF CostLess(s.cost[n], c) THEN s
             ELSE [s EXCEPT !.parent[n] = v,
                            !.cost[n] = c,
                            !.to_visit = @ \cup {n}]

RECURSIVE Expand(_, _, _, _)
Expand(s, v, ns, i) ==
    IF i > Len(ns) THEN s
    ELSE Expand(Relax(s, v, ns[i]), v, ns, i + 1)

RECURSIVE Reverse(_)
Reverse(q) == IF q = << >> THEN << >> ELSE Append(Reverse(Tail(q)), Head(q))

\* One iteration of the while loop without "path.append(visiting)".
VisitStepNoAppend(s, v) ==
    LET s1 == [s EXCEPT !.visiting = v,
                        !.already_visited = @ \cup {v},
                        !.to_visit = @ \ {v}]
    IN  IF v = goal
        THEN [s1 EXCEPT !.node = v, !.pc = "backtrack"]
        ELSE Expand(s1, v, adjacent(v), 1)

\* One iteration of the while loop expanding to self.cardinals(visiting).
VisitStepCardinals(s, v) ==
    LET s1 == [s EXCEPT !.visiting = v,
                        !.already_visited = @ \cup {v},
                        !.to_visit = @ \ {v}]
    IN  IF v = goal
        THEN [s1 EXCEPT !.path = Append(@, v), !.node = v, !.pc = "backtrack"]
        ELSE Expand(s1, v, cardinals(v), 1)

\* One iteration of the while loop without "to_visit.remove(visiting)".
VisitStepKeepOpen(s, v) ==
    LET s1 == [s EXCEPT !.visiting = v,
                        !.already_visited = @ \cup {v}]
    IN  IF v = goal
        THEN [s1 EXCEPT !.path = Append(@, v), !.node = v, !.pc = "backtrack"]
        ELSE Expand(s1, v, adjacent(v), 1)

\* One iteration of the while loop that picks v.
VisitStep(s, v) ==
    LET s1 == [s EXCEPT !.visiting = v,
                        !.already_visited = @ \cup {v},
                        !.to_visit = @ \ {v}]
    IN  IF v = goal
        THEN [s1 EXCEPT !.path = Append(@, v), !.node = v, !.pc = "backtrack"]
        ELSE Expand(s1, v, adjacent(v), 1)

\* The path reconstruction returning path as collected, not reversed.
BacktrackStepNoReverse(s) ==
    LET n == s.parent[s.node]
    IN  IF n = None
        THEN [s EXCEPT !.node = None, !.result = s.path, !.pc = "done"]
        ELSE [s EXCEPT !.node = n, !.path = Append(@, n)]

\* One iteration of the "while True" loop that rebuilds the path.
BacktrackStep(s) ==
    LET n == s.parent[s.node]
    IN  IF n = None
        THEN [s EXCEPT !.node = None, !.result = Reverse(s.path), !.pc = "done"]
        ELSE [s EXCEPT !.node = n, !.path = Append(@, n)]

\* The while loop ends with to_visit empty: return path.
ExitStep(s) == [s EXCEPT !.result = s.path, !.pc = "done"]

\* The step the call on the freshly parsed grid takes, breaking ties as
\* the call on the used grid did (v) where it can.  The first search on a
\* grid is itself the search on a freshly parsed grid.
FreshStep(v) ==
    IF searches = 1 THEN fresh
    ELSE IF fresh.pc = "loop"
    THEN IF fresh.to_visit = {} THEN ExitStep(fresh)
         ELSE IF v \in MinCost(fresh) THEN VisitStep(fresh, v)
         ELSE VisitStep(fresh, CHOOSE m \in MinCost(fresh) : TRUE)
    ELSE IF fresh.pc = "backtrack" THEN BacktrackStep(fresh)
    ELSE fresh

Set(s) ==
    /\ cost' = s.cost
    /\ parent' = s.parent
    /\ to_visit' = s.to_visit
    /\ already_visited' = s.already_visited
    /\ path' = s.path
    /\ visiting' = s.visiting
    /\ node' = s.node
    /\ result' = s.result
    /\ pc' = s.pc

NoProbe == [op |-> "none"]

\* ------------------------------------------------------------- actions
Texts(maxw, maxh, maxcells) ==
    UNION {[1..sz[2] -> [1..sz[1] -> Chars]] :
              sz \in {wh \in (1..maxw) \X (1..maxh) : wh[1] * wh[2] <= maxcells}}

\* The <<row, column>> of the walls of a text.
Walls(text) ==
    {ij \in (1..Len(text)) \X (1..Len(text[1])) : text[ij[1]][ij[2]] = "#"}

\* At most MaxWalls walls, all in one row or all in one column.
FewWalls(text) ==
    /\ Cardinality(Walls(text)) <= MaxWalls
    /\ \/ \A a \in Walls(text), b \in Walls(text) : a[1] = b[1]
       \/ \A a \in Walls(text), b \in Walls(text) : a[2] = b[2]

\* The state after grid = Grid.from_text(text).
ParsedText(text) ==
        /\ nodes = from_text(text).nodes
        /\ width = from_text(text).width
        /\ height = from_text(text).height
        /\ cost = [c \in {Pos(n) : n \in {from_text(text).nodes[i] :
                             i \in 1..Len(from_text(text).nodes)}} |-> Inf]
        /\ parent = [c \in DOMAIN cost |-> None]
        /\ start = None
        /\ goal = None
        /\ to_visit = {}
        /\ already_visited = {}
        /\ path = << >>
        /\ visiting = None
        /\ node = None
        /\ result = << >>
        /\ pc = "idle"
        /\ searches = 0
        /\ probe = NoProbe
        /\ fresh = [cost |-> cost, parent |-> parent, to_visit |-> {},
                    already_visited |-> {}, path |-> << >>, visiting |-> None,
                    node |-> None, result |-> << >>, pc |-> "idle"]

Parsed(maxw, maxh, maxcells) ==
    \E text \in Texts(maxw, maxh, maxcells) :
        /\ FewWalls(text)
        /\ ParsedText(text)

Init == Parsed(MaxWidth, MaxHeight, MaxCells)

InitRepeat == Parsed(MaxRepeatWidth, MaxRepeatHeight, MaxRepeatCells)

\* grid.astar(st, gl), from its entry to the while loop.
Enter(st, gl) ==
    /\ start' = st
    /\ goal' = gl
    /\ Set(AstarEnter(run, st, gl))
    /\ fresh' = IF searches = 0 THEN fresh ELSE AstarEnter(FreshNodes, st, gl)
    /\ searches' = searches + 1
    /\ UNCHANGED <<nodes, width, height, probe>>

\* The first search on the grid.
Astar ==
    /\ pc = "idle"
    /\ \E st \in Cells, gl \in Cells : Enter(st, gl)

\* A further search on the grid, after an earlier one returned.
AstarAgain ==
    /\ pc = "done"
    /\ searches < MaxSearches
    /\ \E st \in Cells, gl \in Cells : Enter(st, gl)

\* One iteration of the while loop.
Visit ==
    /\ pc = "loop"
    /\ to_visit # {}
    /\ \E v \in MinCost(run) :
          /\ Set(VisitStep(run, v))
          /\ fresh' = FreshStep(v)
    /\ UNCHANGED <<nodes, width, height, start, goal, searches, probe>>

\* One iteration of the path reconstruction loop, or its end and the return.
Backtrack ==
    /\ pc = "backtrack"
    /\ Set(BacktrackStep(run))
    /\ fresh' = FreshStep(visiting)
    /\ UNCHANGED <<nodes, width, height, start, goal, searches, probe>>

\* The while loop ends with nothing left to visit.
Exit ==
    /\ pc = "loop"
    /\ to_visit = {}
    /\ Set(ExitStep(run))
    /\ fresh' = FreshStep(visiting)
    /\ UNCHANGED <<nodes, width, height, start, goal, searches, probe>>

\* A direct lookup grid[key].
Lookup(key) ==
    /\ probe' = [op |-> "getitem", key |-> key, result |-> getitem(key)]
    /\ UNCHANGED <<nodes, width, height, cost, parent, start, goal, to_visit,
                   already_visited, path, visiting, node, result, pc, searches,
                   fresh>>

\* A direct call grid.neighbours(n, Directions.d).
Enumerate(n, d) ==
    /\ probe' = [op |-> "neighbours", node |-> n, directions |-> d,
                 result |-> neighbours(n, Directions[d])]
    /\ UNCHANGED <<nodes, width, height, cost, parent, start, goal, to_visit,
                   already_visited, path, visiting, node, result, pc, searches,
                   fresh>>

\* One search on a parsed grid.
Next ==
    \/ Astar
    \/ Visit
    \/ Backtrack
    \/ Exit

Spec == Init /\ [][Next]_vars

\* Lookups and neighbour enumerations on a parsed grid.
NextGrid ==
    \/ \E x \in -1..width, y \in -1..height : Lookup(<<x, y>>)
    \/ \E n \in Cells, d \in DOMAIN Directions : Enumerate(n, d)

SpecGrid == Init /\ [][NextGrid]_vars

\* Searches one after the other on one grid.
NextRepeat ==
    \/ Next
    \/ AstarAgain

SpecRepeat == InitRepeat /\ [][NextRepeat]_vars

\* The condition "while to_visit" of the main loop holds: an iteration of
\* the loop can be taken (ENABLED <<Visit>>_vars).
VisitEnabled == pc = "loop" /\ to_visit # {}

\* One search that runs on: astar is sequential code, so a call that has
\* begun takes the next iteration of its loops, or returns, as long as one
\* is left to take.  The weak fairness of Visit is written out, with
\* VisitEnabled for ENABLED <<Visit>>_vars.
SpecLive ==
    /\ InitRepeat
    /\ [][Next]_vars
    /\ ([]<>~VisitEnabled \/ []<><<Visit>>_vars)
    /\ WF_vars(Backtrack)
    /\ WF_vars(Exit)

\* The stripped lines of text.strip().splitlines(): any number of lines of
\* any lengths; the first and the last line are not blank, text.strip()
\* having removed the blank lines around the text.
Lines(maxw, maxlines) ==
    LET line == UNION {[1..w -> Chars] : w \in 0..maxw}
        all  == UNION {[1..h -> line] : h \in 0..maxlines}
    IN  {t \in all : Len(t) > 0 => (t[1] # << >> /\ t[Len(t)] # << >>)}

\* A text is at hand and no Grid is built yet.
InitText ==
    /\ probe \in {[op |-> "from_text", text |-> t, raised |-> FALSE] :
                     t \in Lines(MaxTextWidth, MaxTextLines)}
    /\ nodes = << >>
    /\ width = 0
    /\ height = 0
    /\ cost = << >>
    /\ parent = << >>
    /\ start = None
    /\ goal = None
    /\ to_visit = {}
    /\ already_visited = {}
    /\ path = << >>
    /\ visiting = None
    /\ node = None
    /\ result = << >>
    /\ pc = "text"
    /\ searches = 0
    /\ fresh = [pc |-> "text"]

\* grid = Grid.from_text(text): no statement of from_text raises.
FromText ==
    /\ pc = "text"
    /\ nodes' = from_text(probe.text).nodes
    /\ width' = from_text(probe.text).width
    /\ height' = from_text(probe.text).height
    /\ cost' = [c \in {Pos(nodes'[i]) : i \in 1..Len(nodes')} |-> Inf]
    /\ parent' = [c \in DOMAIN cost' |-> None]
    /\ pc' = "idle"
    /\ fresh' = [cost |-> cost', parent |-> parent', to_visit |-> {},
                 already_visited |-> {}, path |-> << >>, visiting |-> None,
                 node |-> None, result |-> << >>, pc |-> "idle"]
    /\ UNCHANGED <<start, goal, to_visit, already_visited, path, visiting,
                   node, result, searches, probe>>

\* Parsing a text, of lines of any lengths, into a Grid.
NextText == FromText

SpecText == InitText /\ [][NextText]_vars

\* The stripped lines of the text data of the demo.
data ==
    << <<".", ".", ".", ".", ".", ".", ".", ".", ".", ".">>,
       <<".", ".", ".", ".", ".", "B", ".", ".", ".", ".">>,
       <<".", ".", ".", ".", ".", ".", ".", ".", ".", ".">>,
       <<".", "#", "#", "#", "#", "#", "#", "#", "#", "#">>,
       <<".", ".", ".", ".", ".", ".", ".", ".", ".", ".">>,
       <<"#", "#", "#", "#", "#", "#", "#", "#", "#", ".">>,
       <<".", ".", ".", ".", ".", ".", ".", ".", ".", ".">>,
       <<".", ".", ".", ".", ".", ".", ".", ".", ".", ".">>,
       <<".", ".", "A", ".", ".", ".", ".", ".", ".", ".">>,
       <<".", ".", ".", ".", ".", ".", ".", ".", ".", ".">> >>

\* grid = Grid.from_text(data)
InitDemo == ParsedText(data)

A == Pos(getitem(<<2, 8>>))
B == Pos(getitem(<<5, 1>>))

\* grid.astar(A, B), and the same call made again after it returned.
AstarDemo ==
    /\ pc = "idle" \/ (pc = "done" /\ searches < MaxSearches)
    /\ Enter(A, B)

\* The demo: the search runs until astar returns.  The while loop of this
\* search never ends with to_visit empty (C12DemoPath), so Exit is no step
\* of the demo.
NextDemo ==
    \/ AstarDemo
    \/ Visit
    \/ Backtrack

SpecDemo == InitDemo /\ [][NextDemo]_vars

\* ---------------------------------------------------------------- routes
Abs(i) == IF i < 0 THEN -i ELSE i

\* p and q are 8-connected neighbours.
Adjacent8(p, q) ==
    /\ p # q
    /\ Abs(p[1] - q[1]) <= 1
    /\ Abs(p[2] - q[2]) <= 1

\* The cells that are not traversable.
WallCells == {Pos(nodes[i]) : i \in {j \in 1..Len(nodes) : nodes[j].value = "#"}}

\* The traversable cells one 8-connected step away from p.
Steps8(p) == {q \in Cells \ WallCells : Adjacent8(p, q)}

RECURSIVE Closure(_)
Closure(S) ==
    LET T == S \cup UNION {Steps8(p) : p \in S}
    IN  IF T = S THEN S ELSE Closure(T)

\* gl can be reached from st by 8-connected steps onto traversable cells.
Reachable(st, gl) == gl \in Closure({st})

\* q is such a route from st to gl.
IsRoute(q, st, gl) ==
    /\ q # << >>
    /\ q[1] = st
    /\ q[Len(q)] = gl
    /\ \A i \in 1..(Len(q) - 1) :
          Adjacent8(q[i], q[i + 1]) /\ traversable(q[i + 1])

\* A length a + b*sqrt(2) is the pair <<a, b>>: a cardinal and b diagonal
\* steps.  LenLess(l1, l2) is l1 < l2.
LenLess(l1, l2) ==
    LET p == l1[1] - l2[1]
        q == l2[2] - l1[2]
    IN  IF q >= 0 THEN p < 0 \/ p * p < 2 * q * q
        ELSE p < 0 /\ p * p > 2 * q * q

StepLength(p, q) == IF p[1] = q[1] \/ p[2] = q[2] THEN <<1, 0>> ELSE <<0, 1>>

RECURSIVE RouteLength(_)
RouteLength(q) ==
    IF Len(q) <= 1 THEN <<0, 0>>
    ELSE LET r == RouteLength(Tail(q))
             e == StepLength(q[1], q[2])
         IN  <<r[1] + e[1], r[2] + e[2]>>

\* One round of relaxation of the route lengths from the start: D is a set
\* of <<cell, length>>, the length of the shortest route found so far to
\* each cell reached.
RelaxRound(D) ==
    LET cand == D \cup UNION {{<<q, <<e[2][1] + StepLength(e[1], q)[1],
                                      e[2][2] + StepLength(e[1], q)[2]>> >> :
                                 q \in Steps8(e[1])} : e \in D}
    IN  {e \in cand : \A f \in cand : f[1] = e[1] => ~LenLess(f[2], e[2])}

RECURSIVE ShortestFrom(_)
ShortestFrom(D) ==
    LET N == RelaxRound(D) IN IF N = D THEN D ELSE ShortestFrom(N)

\* The length of a shortest route from st to gl, which exists.
Shortest(st, gl) ==
    LET D == ShortestFrom({<<st, <<0, 0>> >>})
    IN  (CHOOSE e \in D : e[1] = gl)[2]

\* ---------------------------------------------------------------- claims
\* C1: when a route from start to goal exists, the path astar returns is a
\* shortest one: no route of traversable 8-connected cells from start to
\* goal is shorter (cardinal step 1, diagonal step sqrt 2).  Stated for the
\* returned paths that are routes themselves.
C1Shortest ==
    (pc = "done" /\ IsRoute(result, start, goal) /\ Reachable(start, goal))
        => ~LenLess(Shortest(start, goal), RouteLength(result))

\* C2: when goal is reachable from start, astar returns a non-empty
\* sequence that begins with start and ends with goal.
C2StartToGoal ==
    (pc = "done" /\ Reachable(start, goal))
        => /\ result # << >>
           /\ result[1] = start
           /\ result[Len(result)] = goal

C2Witness ==
    /\ pc = "done"
    /\ Reachable(start, goal)
    /\ Len(result) >= 3
    /\ result[1] = start
    /\ result[Len(result)] = goal

\* C3: every two consecutive cells of the returned path are 8-connected
\* neighbours.
C3Adjacent ==
    pc = "done" =>
        \A i \in 1..(Len(result) - 1) : Adjacent8(result[i], result[i + 1])

\* C4 as claimed: every cell of the returned path is traversable, also when
\* start is not.
C4AllTraversable ==
    pc = "done" => \A i \in 1..Len(result) : traversable(result[i])

\* C4 amended: every cell of the returned path other than its first cell,
\* start, is traversable; start is returned whatever its value.
C4TraversableAfterStart ==
    pc = "done" =>
        /\ \A i \in 2..Len(result) : traversable(result[i])
        /\ result # << >> => result[1] = start

C4Witness ==
    /\ pc = "done"
    /\ ~traversable(start)
    /\ Len(result) >= 3
    /\ \E c \in Cells \ {start} : ~traversable(c)

\* C5: when start # goal and no route of traversable 8-connected cells
\* leads from start to goal, astar returns the empty sequence.
C5EmptyWhenUnreachable ==
    (pc = "done" /\ start # goal /\ ~Reachable(start, goal))
        => result = << >>

\* C6: astar(s, s) returns exactly <<s>>, whatever the value of s and
\* whatever searches ran on the grid before.
C6SelfPath ==
    (pc = "done" /\ start = goal) => result = <<start>>

C6Witness ==
    /\ pc = "done"
    /\ start = goal
    /\ searches >= 2
    /\ ~traversable(start)
    /\ result = <<start>>

\* C7: a search that follows other searches on the grid goes through the
\* same states, and returns the same result, as the same search with the
\* same tie-breaks on a freshly parsed grid.
C7Independent == searches >= 2 => fresh = run

C7Witness ==
    /\ pc = "done"
    /\ searches >= 2
    /\ Len(result) >= 3
    /\ fresh.result = result

\* The position is inside [0, width) x [0, height).
InGrid(p) ==
    /\ p[1] >= 0
    /\ p[1] < width
    /\ p[2] >= 0
    /\ p[2] < height

\* The positions n + offset, for the offsets of the direction set in their
\* order, that are inside the grid.
InGridNeighbours(n, directions) ==
    SelectSeq([i \in 1..Len(directions) |->
                  <<n[1] + directions[i][1], n[2] + directions[i][2]>>],
              InGrid)

\* C8: neighbours(c, D) returns exactly the cells at c + offset, for the
\* offsets of D in their order, that lie inside the grid; a cell of the
\* rightmost column has no neighbour in column 0.
C8NeighboursInGrid ==
    probe.op = "neighbours" =>
        probe.result = InGridNeighbours(probe.node, Directions[probe.directions])

\* C9: grid[(x, y)] raises KeyError when x < 0, y < 0, x >= width or
\* y >= height, and returns the cell at (x, y) otherwise.
C9LookupFails ==
    probe.op = "getitem" =>
        IF InGrid(probe.key)
        THEN probe.result # KeyError /\ Pos(probe.result) = probe.key
        ELSE probe.result = KeyError

IsCorner(n) ==
    /\ n[1] \in {0, width - 1}
    /\ n[2] \in {0, height - 1}

\* C10: no cell returned by neighbours has a negative x or y; adjacent
\* returns at most 8 cells, cardinals and diagonals at most 4; for a corner
\* cell of the grid adjacent returns fewer than 8 cells, cardinals and
\* diagonals fewer than 4.
C10NeighbourCounts ==
    probe.op = "neighbours" =>
        /\ \A i \in 1..Len(probe.result) :
              probe.result[i][1] >= 0 /\ probe.result[i][2] >= 0
        /\ Len(probe.result) <= (IF probe.directions = "adjacent" THEN 8 ELSE 4)
        /\ IsCorner(probe.node) =>
              Len(probe.result) < (IF probe.directions = "adjacent" THEN 8 ELSE 4)

C10Witness ==
    /\ probe.op = "neighbours"
    /\ probe.directions = "adjacent"
    /\ IsCorner(probe.node)
    /\ width >= 3
    /\ height >= 3
    /\ Len(probe.result) >= 3

\* The text has no rows, or two of its stripped lines differ in length.
Malformed(text) ==
    \/ Len(text) = 0
    \/ \E i \in 1..Len(text), j \in 1..Len(text) : Len(text[i]) # Len(text[j])

\* C11: from_text fails, building no Grid, when the text has no rows or two
\* of its stripped lines differ in length; so every Grid it builds has
\* len(nodes) = width * height, the cell at index i of nodes being at
\* position (i mod width, i div width).
C11Rectangular ==
    (pc = "idle" /\ probe.op = "from_text") =>
        /\ Malformed(probe.text) => probe.raised
        /\ ~probe.raised =>
              /\ Len(nodes) = width * height
              /\ \A i \in 1..Len(nodes) :
                    Pos(nodes[i]) = <<(i - 1) % width, (i - 1) \div width>>

\* The index of cell c in the sequence q, 0 when c is not in q.
IndexOf(q, c) ==
    IF \E i \in 1..Len(q) : q[i] = c
    THEN CHOOSE i \in 1..Len(q) : q[i] = c /\ \A j \in 1..(i - 1) : q[j] # c
    ELSE 0

\* C12: on the 10x10 demo grid astar(A, B), A = (2,8), B = (5,1), returns
\* under every tie-break a non-empty path that starts at (2,8), ends at
\* (5,1) and contains the gap cell (9,5) of the lower wall before the gap
\* cell (0,3) of the upper wall; the search never runs out of open cells.
C12DemoPath ==
    /\ pc = "loop" => to_visit # {}
    /\ pc = "done" =>
          /\ result # << >>
          /\ result[1] = <<2, 8>>
          /\ result[Len(result)] = <<5, 1>>
          /\ IndexOf(result, <<9, 5>>) > 0
          /\ IndexOf(result, <<9, 5>>) < IndexOf(result, <<0, 3>>)

C12Witness ==
    /\ pc = "done"
    /\ start = <<2, 8>>
    /\ goal = <<5, 1>>
    /\ width = 10
    /\ height = 10
    /\ IndexOf(result, <<9, 5>>) > 0
    /\ IndexOf(result, <<0, 3>>) > 0

\* The cells of a sequence.
Range(q) == {q[i] : i \in 1..Len(q)}

\* C13: in every state of a search the open set to_visit and the closed
\* set already_visited are disjoint; an iteration of the main loop closes
\* one cell that was not closed before, no cell leaves the closed set and
\* no closed cell is put in the open set again.
C13OpenClosedDisjoint ==
    /\ [](to_visit \cap already_visited = {})
    /\ [][pc = "loop" =>
            /\ already_visited \subseteq already_visited'
            /\ to_visit' \cap already_visited = {}
            /\ to_visit # {} =>
                  /\ visiting' \in to_visit \ already_visited
                  /\ already_visited' = already_visited \cup {visiting'}]_vars

\* A cell was expanded that has a traversable neighbour closed earlier.
C13Witness ==
    /\ pc = "loop"
    /\ to_visit # {}
    /\ Cardinality(already_visited) >= 3
    /\ \E n \in Range(adjacent(visiting)) :
          n \in already_visited \ {visiting} /\ traversable(n)

\* The cost the expansion of v computes for its neighbour n.
Tentative(v, n) == <<distance(v, n), distance(goal, n)>>

\* The step is an iteration of the main loop that expands visiting'.
Expands == pc = "loop" /\ to_visit # {} /\ pc' = "loop"

\* The neighbours the expansion of visiting' computes a cost for.
Considered ==
    {n \in Range(adjacent(visiting')) :
        traversable(n) /\ n \notin already_visited'}

\* C14 as claimed: the expansion of a cell leaves parent and cost of a
\* neighbour unchanged when the neighbour's stored cost is less than or
\* equal to the tentative cost; with equal costs the parent is not replaced.
C14SkipNotGreater ==
    [][Expands =>
          \A n \in Considered :
              ~CostLess(Tentative(visiting', n), cost[n]) =>
                  parent'[n] = parent[n] /\ cost'[n] = cost[n]]_vars

\* C14 amended: the expansion of a cell leaves parent and cost of a
\* neighbour unchanged when the neighbour's stored cost is strictly less
\* than the tentative cost; otherwise, also with equal costs, the expanded
\* cell becomes the parent, the tentative cost the cost, and the neighbour
\* is in the open set.
C14SkipLess ==
    [][Expands =>
          \A n \in Considered :
              IF CostLess(cost[n], Tentative(visiting', n))
              THEN parent'[n] = parent[n] /\ cost'[n] = cost[n]
              ELSE /\ parent'[n] = visiting'
                   /\ cost'[n] = Tentative(visiting', n)
                   /\ n \in to_visit']_vars

\* The last expansion skipped a neighbour of strictly less cost, and took
\* over a neighbour m whose stored cost, set by an earlier expansion from
\* p, equalled the tentative cost.
C14Witness ==
    /\ pc = "loop"
    /\ visiting \in already_visited
    /\ \E n \in Range(adjacent(visiting)) \cap to_visit :
          parent[n] # visiting /\ CostLess(cost[n], Tentative(visiting, n))
    /\ \E m \in Range(adjacent(visiting)) \cap to_visit :
          /\ parent[m] = visiting
          /\ \E p \in already_visited \ {visiting} :
                /\ m \in Range(adjacent(p))
                /\ Tentative(p, m) = cost[m]

\* C15 as claimed: in every state of every search, whatever start and goal,
\* no non-traversable cell is in the open set or in the closed set.
C15NoWallOpenOrClosed ==
    (to_visit \cup already_visited) \cap WallCells = {}

\* C15 amended: in every state of every search no non-traversable cell
\* other than start is in the open set or in the closed set; start is put
\* in the open set, and closed, whatever its value.
C15NoWallButStart ==
    /\ (to_visit \cup already_visited) \cap WallCells \subseteq {start}
    /\ pc # "idle" => start \in to_visit \cup already_visited

\* A search from a non-traversable start has closed three cells and
\* expanded next to another non-traversable cell.
C15Witness ==
    /\ pc = "loop"
    /\ ~traversable(start)
    /\ start \in already_visited
    /\ Cardinality(already_visited) >= 3
    /\ \E c \in Range(adjacent(visiting)) \ {start} : ~traversable(c)

\* q is p moved by one of the CARDINALS offsets.
CardinalStep(p, q) ==
    \E i \in 1..Len(CARDINALS) :
        q = <<p[1] + CARDINALS[i][1], p[2] + CARDINALS[i][2]>>

\* C16 as claimed: the search moves by CARDINALS offsets only: a cell gets
\* as parent only a cell one cardinal offset away, and every two
\* consecutive cells of the returned path differ by one cardinal offset.
C16CardinalOnly ==
    /\ \A n \in Cells : parent[n] # None => CardinalStep(parent[n], n)
    /\ pc = "done" =>
          \A i \in 1..(Len(result) - 1) : CardinalStep(result[i], result[i + 1])

\* C16 amended: the search moves to the cells adjacent() returns, for the
\* eight ADJACENTS offsets: after the expansion of a closed cell every
\* traversable cell of adjacent(cell) outside the closed set is in the open
\* set, an open cell's parent has the cell among its adjacent() cells, and of
\* every two consecutive cells of the returned path the second is among
\* the adjacent() cells of the first.
C16AdjacentSteps ==
    /\ (pc = "loop" /\ visiting \in already_visited) =>
          Range(adjacent(visiting)) \subseteq
              (to_visit \cup already_visited \cup WallCells)
    /\ \A p \in {parent[n] : n \in to_visit} \ {None} :
          {n \in to_visit : parent[n] = p} \subseteq Range(adjacent(p))
    /\ pc = "done" =>
          \A i \in 1..(Len(result) - 1) :
              result[i + 1] \in Range(adjacent(result[i]))

\* A returned path with a diagonal step and a cardinal step.
C16Witness ==
    /\ pc = "done"
    /\ \E i \in 1..(Len(result) - 1) :
          /\ Abs(result[i][1] - result[i + 1][1]) = 1
          /\ Abs(result[i][2] - result[i + 1][2]) = 1
    /\ \E i \in 1..(Len(result) - 1) : CardinalStep(result[i], result[i + 1])

\* C17: every cell n other than start with a finite cost has a parent and
\* cost(n) = distance(parent(n), n) + distance(goal, n), the cost of the
\* last step plus the heuristic, with nothing accumulated along the way; a
\* cell has a finite cost exactly when it is in the open or the closed set.
C17CostOfLastStep ==
    /\ \A n \in (to_visit \cup already_visited) \ {start} :
          /\ cost[n] # Inf
          /\ parent[n] # None
          /\ cost[n] = <<distance(parent[n], n), distance(goal, n)>>
    /\ {n \in DOMAIN cost : cost[n] # Inf} = to_visit \cup already_visited

\* An open cell two or more steps from start, reached by a diagonal step,
\* whose parent has a cost of its own.
C17Witness ==
    /\ pc = "loop"
    /\ \E n \in to_visit :
          /\ parent[n] \notin {None, start}
          /\ cost[n][1] = 2
          /\ cost[parent[n]] # Inf

\* C18: every search ends.  An iteration of the main loop closes one cell
\* that was not closed before, so there are at most width * height
\* iterations; the iteration that closes goal goes on to return the path,
\* and when the open set is empty the empty sequence is returned.
C18Terminates ==
    /\ [](Cardinality(already_visited) <= width * height)
    /\ [][(pc = "loop" /\ to_visit # {}) =>
             /\ visiting' \notin already_visited
             /\ Cardinality(already_visited') = Cardinality(already_visited) + 1
             /\ pc' = (IF visiting' = goal THEN "backtrack" ELSE "loop")]_vars
    /\ [][(pc = "loop" /\ to_visit = {}) =>
             (pc' = "done" /\ result' = << >>)]_vars
    /\ [][(pc = "backtrack" /\ pc' = "done") =>
             (result' # << >> /\ result'[Len(result')] = goal)]_vars
    /\ (pc = "loop") ~> (pc = "done")

\* A search that returned the empty sequence after closing several cells.
C18Witness ==
    /\ pc = "done"
    /\ result = << >>
    /\ to_visit = {}
    /\ Cardinality(already_visited) >= 3

\* Following at most k parent links from n leads to start.
RECURSIVE LeadsToStart(_, _)
LeadsToStart(n, k) ==
    IF n = start THEN parent[n] = None
    ELSE k > 0 /\ parent[n] # None /\ LeadsToStart(parent[n], k - 1)

\* C19: start has no parent; every other cell in the open or the closed
\* set has a parent that is in the closed set, closed before the cell is;
\* the parent links from a closed cell lead to start without a cycle, the
\* path reconstruction loop ends, and no cell is twice in the returned path.
C19ParentChain ==
    /\ [](pc # "idle" => parent[start] = None)
    /\ [](\A n \in (to_visit \cup already_visited) \ {start} :
             parent[n] \in already_visited)
    /\ [][(pc = "loop" /\ to_visit # {}) =>
             (visiting' = start \/ parent[visiting'] \in already_visited)]_vars
    /\ [](\A n \in already_visited : LeadsToStart(n, Cardinality(already_visited)))
    /\ (pc = "backtrack") ~> (pc = "done")
    /\ [](pc = "done" =>
             \A i \in 1..Len(result), j \in 1..Len(result) :
                 result[i] = result[j] => i = j)

\* A returned path of several cells, with a closed cell that is not on it.
C19Witness ==
    /\ pc = "done"
    /\ Len(result) >= 3
    /\ \E n \in already_visited : n \notin Range(result)

====
